---- MODULE Spec2Model ----
(***************************************************************************)
(* A model of words.py: the word index (class words) and its three         *)
(* subclasses anagram, crossword and codeword.                             *)
(*                                                                         *)
(* A Python str is modelled as a sequence of one-character strings, so     *)
(* "Ba" is <<"B", "a">>.  The dict word_index is modelled as a sequence of *)
(* entries [key, words] in the dict's insertion order, which is the order  *)
(* Python iterates a dict in.                                              *)
(***************************************************************************)
EXTENDS Integers, Sequences, FiniteSets, TLC

\* ------------------------------------------------------------------ bounds
MaxWords == 2
MaxQueryLen == 2
MaxLines == 2

\* ------------------------------------------------------ characters, str ops
\* A character is a one-character string; a character that cannot be written
\* so is named by its code point, "U+212A".  The characters of the model
\* are the printable ASCII characters and those of OTHERS; the operations on
\* str below are those of Python on these characters.
LETTERS ==
  << "a", "b", "c", "d", "e", "f", "g", "h", "i", "j", "k", "l", "m",
     "n", "o", "p", "q", "r", "s", "t", "u", "v", "w", "x", "y", "z" >>

\* the ASCII upper-case letters, which str.lower() maps onto LETTERS in order
UPPERCASE ==
  << "A", "B", "C", "D", "E", "F", "G", "H", "I", "J", "K", "L", "M",
     "N", "O", "P", "Q", "R", "S", "T", "U", "V", "W", "X", "Y", "Z" >>

\* the printable ASCII characters in code point order, from 32 to 126 (the
\* grave accent, which a string of this language cannot hold, by its name)
ASCII ==
  << " ", "!", "\"", "#", "$", "%", "&", "'", "(", ")", "*", "+", ",", "-",
     ".", "/", "0", "1", "2", "3", "4", "5", "6", "7", "8", "9", ":", ";",
     "<", "=", ">", "?", "@", "A", "B", "C", "D", "E", "F", "G", "H", "I",
     "J", "K", "L", "M", "N", "O", "P", "Q", "R", "S", "T", "U", "V", "W",
     "X", "Y", "Z", "[", "\\", "]", "^", "_", "U+0060", "a", "b", "c", "d", "e",
     "f", "g", "h", "i", "j", "k", "l", "m", "n", "o", "p", "q", "r", "s",
     "t", "u", "v", "w", "x", "y", "z", "{", "|", "}", "~" >>

\* the other characters of the model: the control and non-ASCII white space
\* of str.isspace(), E acute in both cases (U+00C9, U+00E9), I with dot above
\* (U+0130), the combining dot above (U+0307) and the Kelvin sign (U+212A)
OTHERS ==
  << "\t", "\n", "U+000B", "\f", "\r", "U+001C", "U+001D", "U+001E",
     "U+001F", "U+0085", "U+00A0", "U+00C9", "U+00E9", "U+0130", "U+0307",
     "U+1680", "U+2000", "U+2001", "U+2002", "U+2003", "U+2004", "U+2005",
     "U+2006", "U+2007", "U+2008", "U+2009", "U+200A", "U+2028", "U+2029",
     "U+202F", "U+205F", "U+212A", "U+3000" >>

\* the code points of OTHERS, in the same order
OTHERS_ORD ==
  << 9, 10, 11, 12, 13, 28, 29, 30, 31, 133, 160, 201, 233, 304, 775, 5760,
     8192, 8193, 8194, 8195, 8196, 8197, 8198, 8199, 8200, 8201, 8202,
     8232, 8233, 8239, 8287, 8490, 12288 >>

IndexOf(s, c) == CHOOSE i \in 1..Len(s) : s[i] = c

InSeq(s, c) == \E i \in 1..Len(s) : s[i] = c

\* the characters str.strip() and str.split() treat as white space: the 29
\* characters for which str.isspace() holds
WHITESPACE ==
  { " " } \cup { OTHERS[i] : i \in { j \in 1..Len(OTHERS) :
                   OTHERS_ORD[j] \notin { 201, 233, 304, 775, 8490 } } }

\* `char in LETTERS` for a one-character char
InLETTERS(c) == InSeq(LETTERS, c)

\* str.lower() on one character: a str of one or two characters
LowerChar(c) ==
  IF InSeq(UPPERCASE, c) THEN << LETTERS[IndexOf(UPPERCASE, c)] >>
  ELSE IF c = "U+212A" THEN << "k" >>
  ELSE IF c = "U+0130" THEN << "i", "U+0307" >>
  ELSE IF c = "U+00C9" THEN << "U+00E9" >>
  ELSE IF InSeq(ASCII, c) THEN << c >>
  ELSE << OTHERS[IndexOf(OTHERS, c)] >>

\* str.lower()
RECURSIVE Lower(_)
Lower(s) ==
  IF s = << >> THEN << >> ELSE LowerChar(Head(s)) \o Lower(Tail(s))

RECURSIVE LStrip(_)
LStrip(s) ==
  IF s # << >> /\ Head(s) \in WHITESPACE THEN LStrip(Tail(s)) ELSE s

RECURSIVE RStrip(_)
RStrip(s) ==
  IF s # << >> /\ s[Len(s)] \in WHITESPACE
  THEN RStrip(SubSeq(s, 1, Len(s) - 1))
  ELSE s

\* str.strip()
Strip(s) == RStrip(LStrip(s))

\* str.split(): the maximal runs of non-white-space characters, in order
RECURSIVE SplitFrom(_, _, _)
SplitFrom(s, i, cur) ==
  IF i > Len(s)
  THEN IF cur = << >> THEN << >> ELSE << cur >>
  ELSE IF s[i] \in WHITESPACE
       THEN IF cur = << >>
            THEN SplitFrom(s, i + 1, << >>)
            ELSE << cur >> \o SplitFrom(s, i + 1, << >>)
       ELSE SplitFrom(s, i + 1, Append(cur, s[i]))

Split(s) == SplitFrom(s, 1, << >>)

\* ord(c), which is what sorted() orders the characters of a str by
CodePoint(c) ==
  IF InSeq(ASCII, c) THEN 31 + IndexOf(ASCII, c)
  ELSE OTHERS_ORD[IndexOf(OTHERS, c)]

\* sorted(): insertion of one element into a sorted list, stable
RECURSIVE InsertSorted(_, _)
InsertSorted(sorted, c) ==
  IF sorted = << >> THEN << c >>
  ELSE IF CodePoint(c) < CodePoint(Head(sorted))
       THEN << c >> \o sorted
       ELSE << Head(sorted) >> \o InsertSorted(Tail(sorted), c)

RECURSIVE Sorted(_)
Sorted(s) ==
  IF s = << >> THEN << >>
  ELSE InsertSorted(Sorted(SubSeq(s, 1, Len(s) - 1)), s[Len(s)])

\* ------------------------------------------------------------ normalisation
\* words.normalise
PlainNormalise(word) == Strip(Lower(word))

\* anagram.normalise with the sort left out
AnagramNormaliseUnsorted(word) == PlainNormalise(word)

\* anagram.normalise
AnagramNormalise(word) == Sorted(PlainNormalise(word))

\* codeword.normalise: the loop over the letters; code so far, letters seen
\* (in order of their number), next position
RECURSIVE CodeFrom(_, _, _, _)
CodeFrom(word, i, letters_seen, code) ==
  IF i > Len(word) THEN code
  ELSE IF InSeq(letters_seen, word[i])
       THEN CodeFrom(word, i + 1, letters_seen,
                     Append(code, IndexOf(letters_seen, word[i])))
       ELSE CodeFrom(word, i + 1, Append(letters_seen, word[i]),
                     Append(code, Len(letters_seen) + 1))

\* codeword.normalise with letters_seen never consulted: every position gets
\* the next number
CodewordNormaliseNoRepeat(word) ==
  [i \in 1..Len(PlainNormalise(word)) |-> i]

CodewordNormalise(word) == CodeFrom(PlainNormalise(word), 1, << >>, << >>)

\* self.normalise, dispatched on the class of the index
Normalise(strat, word) ==
  CASE strat = "anagram" -> AnagramNormalise(word)
    [] strat = "codeword" -> CodewordNormalise(word)
    [] OTHER -> PlainNormalise(word)

\* ------------------------------------------------------------ the word index
\* `norm in self.word_index`
HasKey(index, norm) == \E i \in 1..Len(index) : index[i].key = norm

\* self.word_index[norm]
Bucket(index, norm) == index[CHOOSE i \in 1..Len(index) : index[i].key = norm].words

\* words.add_word with the bucket of a known key overwritten, not appended to
add_word_overwrite(index, strat, w) ==
  LET norm == Normalise(strat, w) IN
    IF HasKey(index, norm)
    THEN [i \in 1..Len(index) |->
            IF index[i].key = norm
            THEN [key |-> norm, words |-> << w >>]
            ELSE index[i]]
    ELSE Append(index, [key |-> norm, words |-> << w >>])

\* words.add_word
add_word(index, strat, w) ==
  LET norm == Normalise(strat, w) IN
    IF HasKey(index, norm)
    THEN [i \in 1..Len(index) |->
            IF index[i].key = norm
            THEN [key |-> norm, words |-> Append(index[i].words, w)]
            ELSE index[i]]
    ELSE Append(index, [key |-> norm, words |-> << w >>])

\* the three diagnostics of load_words and its closing message
Message(msg, text, n) == [msg |-> msg, text |-> text, n |-> n]

\* `any(char not in LETTERS for char in w.lower())`
AnyNonLetter(w) == \E i \in 1..Len(Lower(w)) : ~InLETTERS(Lower(w)[i])

\* words.load_words, the body of `for line in f`: the state after the lines
\* from position i on, given the state st = [index, printed, count, added]
\* reached before them (added: the words handed to add_word, in order)
RECURSIVE LoadLines(_, _, _, _)
LoadLines(strat, file, i, st) ==
  IF i > Len(file) THEN st
  ELSE
    LET w == Strip(file[i])
        tokens == Split(w)
    IN  IF Len(tokens) > 1
        THEN LoadLines(strat, file, i + 1,
               [st EXCEPT !.printed = Append(@, Message("Multiple words", w, i))])
        ELSE IF w = << >>
        THEN LoadLines(strat, file, i + 1,
               [st EXCEPT !.printed = Append(@, Message("Blank line", << >>, i))])
        ELSE IF AnyNonLetter(w)
        THEN LoadLines(strat, file, i + 1,
               [st EXCEPT !.printed = Append(@, Message("Found non letter character", w, i))])
        ELSE LoadLines(strat, file, i + 1,
               [st EXCEPT !.index = add_word(@, strat, w),
                          !.count = @ + 1,
                          !.added = Append(@, w)])

\* the text of a file given piece by piece
RECURSIVE Text(_)
Text(pieces) ==
  IF pieces = << >> THEN << >> ELSE Head(pieces) \o Text(Tail(pieces))

\* position k of text is where a line ends: at "\n", or at a "\r" that no
\* "\n" follows (open() without newline= reads with universal newlines)
IsLineEnd(text, k) ==
  \/ text[k] = "\n"
  \/ text[k] = "\r" /\ (k = Len(text) \/ text[k + 1] # "\n")

\* the positions where the lines of text end, in order
LineEnds(text) ==
  LET AtEnd(k) == IsLineEnd(text, k) IN
    SelectSeq([k \in 1..Len(text) |-> k], AtEnd)

\* the lines of text, given the positions where they end: each line with its
\* line end, "\n", "\r\n" or "\r", turned into "\n", and the rest of the text
\* after the last line end, if any, as it is
LinesEndingAt(text, ends) ==
  LET n == Len(ends)
      From(j) == IF j = 1 THEN 1 ELSE ends[j - 1] + 1
      To(j) == IF text[ends[j]] = "\n" /\ ends[j] > From(j)
                    /\ text[ends[j] - 1] = "\r"
               THEN ends[j] - 2
               ELSE ends[j] - 1
      whole == [j \in 1..n |-> Append(SubSeq(text, From(j), To(j)), "\n")]
  IN  IF From(n + 1) <= Len(text)
      THEN Append(whole, SubSeq(text, From(n + 1), Len(text)))
      ELSE whole

\* the lines `for line in f` gets from a file that holds text
ReadLines(text) == LinesEndingAt(text, LineEnds(text))

\* the bytes of a character in UTF-8, the encoding open() reads the file in
ByteLen(c) ==
  IF CodePoint(c) < 128 THEN 1
  ELSE IF CodePoint(c) < 2048 THEN 2
  ELSE 3

\* the bytes of the first k characters of text
BytesUpTo(text, k) ==
  Cardinality({ mb \in (1..k) \X (1..3) : mb[2] <= ByteLen(text[mb[1]]) })

\* the bytes the file object reads and decodes at a time
ChunkSize == 8192

\* the largest n in lo..hi with the first n characters of text within the
\* first d bytes, where the first lo are
RECURSIVE CharsWithin(_, _, _, _)
CharsWithin(text, d, lo, hi) ==
  IF lo >= hi THEN lo
  ELSE LET mid == (lo + hi + 1) \div 2 IN
         IF BytesUpTo(text, mid) <= d
         THEN CharsWithin(text, d, mid, hi)
         ELSE CharsWithin(text, d, lo, mid - 1)

\* what is at the path handed to load_words: nothing, a directory, a text
\* file, a text followed by a byte that starts no UTF-8 character (0xFF,
\* 0x80), or a text followed by the first bytes of a longer character and
\* then the end of the file (0xC3, 0xE2 0x84)
PathKinds == { "missing", "directory", "file", "undecodable", "truncated" }

\* the characters of text the file object has decoded before it raises
\* UnicodeDecodeError.  A byte that starts no character fails the whole
\* chunk it is in, so only the characters within the chunks before it are
\* decoded; the first bytes of a longer character are kept back until the
\* end of the file, so all of text is.  A "\r" at the end of what is decoded
\* is kept back to see whether "\n" follows.
Decoded(text, path) ==
  LET n == IF path = "truncated" THEN Len(text)
           ELSE CharsWithin(text,
                  ChunkSize * (BytesUpTo(text, Len(text)) \div ChunkSize),
                  0, Len(text))
  IN  IF n > 0 /\ text[n] = "\r" THEN SubSeq(text, 1, n - 1)
      ELSE SubSeq(text, 1, n)

\* the lines `for line in f` gets before UnicodeDecodeError is raised: the
\* lines of the decoded text that have their line end
Delivered(text, path) ==
  LET got == ReadLines(Decoded(text, path))
      IsWhole(line) == line # << >> /\ line[Len(line)] = "\n"
  IN  SelectSeq(got, IsWhole)

\* words.load_words with the reset moved inside the test that the file exists
load_words_reset_inside(index, strat, path, pieces, doReset) ==
  LET start == [index |-> IF doReset /\ path # "missing" THEN << >> ELSE index,
                printed |-> << >>, count |-> 0, added |-> << >>, raised |-> ""]
  IN  CASE path = "file" ->
             LET done == LoadLines(strat, ReadLines(Text(pieces)), 1, start)
             IN  [done EXCEPT !.printed = Append(@, Message("Loaded", << >>, done.count))]
        [] path \in { "undecodable", "truncated" } ->
             [LoadLines(strat, Delivered(Text(pieces), path), 1, start)
                EXCEPT !.raised = "UnicodeDecodeError"]
        [] path = "directory" -> [start EXCEPT !.raised = "IsADirectoryError"]
        [] OTHER -> start

\* words.load_words: the reset, the test that the path exists, open(), the
\* loop and the closing message; pieces is the text of the file, piece by
\* piece, and raised is the exception the call ends with, if any
load_words(index, strat, path, pieces, doReset) ==
  LET start == [index |-> IF doReset THEN << >> ELSE index,
                printed |-> << >>, count |-> 0, added |-> << >>, raised |-> ""]
  IN  CASE path = "file" ->
             LET done == LoadLines(strat, ReadLines(Text(pieces)), 1, start)
             IN  [done EXCEPT !.printed = Append(@, Message("Loaded", << >>, done.count))]
        [] path \in { "undecodable", "truncated" } ->
             [LoadLines(strat, Delivered(Text(pieces), path), 1, start)
                EXCEPT !.raised = "UnicodeDecodeError"]
        [] path = "directory" -> [start EXCEPT !.raised = "IsADirectoryError"]
        [] OTHER -> start

\* ------------------------------------------------------------------- search
None == [kind |-> "None", words |-> << >>]
List(ws) == [kind |-> "list", words |-> ws]
IndexError == [kind |-> "IndexError", words |-> << >>]

\* words.search returning an empty list where it returns None
words_search_empty(index, strat, q) ==
  LET norm == Normalise(strat, q) IN
    IF HasKey(index, norm) THEN List(Bucket(index, norm)) ELSE List(<< >>)

\* words.search, inherited by anagram
words_search(index, strat, q) ==
  LET norm == Normalise(strat, q) IN
    IF HasKey(index, norm) THEN List(Bucket(index, norm)) ELSE None

\* crossword.search: the pattern built from the search term
Pattern(q) ==
  [i \in 1..Len(Lower(q)) |->
     IF InLETTERS(Lower(q)[i]) THEN Lower(q)[i] ELSE "."]

\* matcher.fullmatch(word): "." matches any character but a newline
FullMatch(pattern, key) ==
  /\ Len(pattern) = Len(key)
  /\ \A i \in 1..Len(key) :
       IF pattern[i] = "." THEN key[i] # "\n" ELSE key[i] = pattern[i]

\* crossword.search: the loop over the keys of the index from entry i on,
\* with the hits so far; IndexError when self.word_index[word][0] is read
\* from an empty list
RECURSIVE Hits(_, _, _, _)
Hits(index, pattern, i, hits) ==
  IF i > Len(index) THEN List(hits)
  ELSE IF FullMatch(pattern, index[i].key)
       THEN IF index[i].words = << >> THEN IndexError
            ELSE Hits(index, pattern, i + 1, Append(hits, index[i].words[1]))
       ELSE Hits(index, pattern, i + 1, hits)

crossword_search(index, q) == Hits(index, Pattern(q), 1, << >>)

\* codeword.search, the loop over the letters of the search term for one
\* possible match w, from (1-based) position i: "failed", "matched", or
\* "IndexError" when w[i] is read past the end of w
RECURSIVE CheckLetters(_, _, _)
CheckLetters(q, w, i) ==
  IF i > Len(q) THEN "matched"
  ELSE IF InLETTERS(q[i])
       THEN IF i > Len(w) THEN "IndexError"
            ELSE IF LowerChar(q[i]) # LowerChar(w[i]) THEN "failed"
            ELSE CheckLetters(q, w, i + 1)
       ELSE CheckLetters(q, w, i + 1)

\* codeword.search, the loop over the possible matches
RECURSIVE Matches(_, _, _, _)
Matches(q, possibles, i, matches) ==
  IF i > Len(possibles) THEN List(matches)
  ELSE LET outcome == CheckLetters(q, possibles[i], 1) IN
         IF outcome = "IndexError" THEN IndexError
         ELSE IF outcome = "matched"
              THEN Matches(q, possibles, i + 1, Append(matches, possibles[i]))
              ELSE Matches(q, possibles, i + 1, matches)

codeword_search(index, q) ==
  LET norm == CodewordNormalise(q) IN
    IF HasKey(index, norm)
    THEN Matches(q, Bucket(index, norm), 1, << >>)
    ELSE None

\* self.search, dispatched on the class of the index
search(index, strat, q) ==
  CASE strat = "crossword" -> crossword_search(index, q)
    [] strat = "codeword" -> codeword_search(index, q)
    [] OTHER -> words_search(index, strat, q)

\* ------------------------------------------------------------------- inputs
\* the four classes main() chooses among
Strategies == { "plain", "anagram", "crossword", "codeword" }

\* the dicts handed to the constructor as word_index: none (or an empty
\* one), one whose only bucket, under the key of "a", holds "b", and one
\* whose only bucket, under that key, is empty
Seeds(strat) ==
  { << >>,
    << [key |-> Normalise(strat, << "a" >>), words |-> << << "b" >> >>] >>,
    << [key |-> Normalise(strat, << "a" >>), words |-> << >>] >> }

\* the well-formed words handed to add_word: a, ab, Ab, aa
WordInputs ==
  { << "a" >>, << "a", "b" >>, << "A", "b" >>, << "a", "a" >> }

\* the lines a word file is made of, each with its line end: a blank line
\* ended by "\r", the Kelvin sign, " Ab " with a form feed for its first
\* blank, "a b" ended by "\r\n", and "a1"
Lines ==
  { << "\r" >>, << "U+212A", "\n" >>, << "\f", "A", "b", " ", "\n" >>,
    << "a", " ", "b", "\r", "\n" >>, << "a", "1", "\n" >> }

\* the characters a search term is made of
QueryChars == { "a", "b", "A", "1", " ", "U+212A", "U+0130" }

\* the word files of at most MaxLines lines
Files == UNION { [1..k -> Lines] : k \in 0..MaxLines }

\* what load_words finds at its path: nothing, a directory, a text file of
\* any lines, or a file of at most one line and then bytes that are not UTF-8
LoadInputs ==
  { << p, << >> >> : p \in { "missing", "directory" } }
    \cup { << "file", f >> : f \in Files }
    \cup { << p, f >> : p \in { "undecodable", "truncated" },
                        f \in { g \in Files : Len(g) <= 1 } }

\* the search terms of at most MaxQueryLen characters
Queries == UNION { [1..k -> QueryChars] : k \in 0..MaxQueryLen }

\* -------------------------------------------------------------------- state
VARIABLES
  strategy,    \* the class of the index object
  seed,        \* the entries of self.word_index that the constructor was
               \* handed and load_words has not emptied since, << >> for none
  word_index,  \* self.word_index
  inserted,    \* the words handed to add_word since the object was made or
               \* load_words last emptied the index
  before,      \* self.word_index as it was when the call just made began
  op,          \* the call just made: "add_word", "load_words", "search";
               \* "idle" between calls
  word,        \* add_word: its argument
  file,        \* load_words: the text of the file at filename, line by line
  path,        \* load_words: what is at the path, one of PathKinds
  raised,      \* load_words: the exception it ended with, "" for none
  reset,       \* load_words: its reset argument
  printed,     \* load_words: what it printed
  query,       \* search: its argument
  result       \* search: what it returned or raised

vars == << strategy, seed, word_index, inserted, before, op, word, file, path,
           raised, reset, printed, query, result >>

Init ==
  /\ strategy \in Strategies
  /\ seed \in Seeds(strategy)
  /\ word_index = seed
  /\ inserted = << >>
  /\ before = << >>
  /\ op = "idle"
  /\ word = << >>
  /\ file = << >>
  /\ path = "missing" /\ raised = ""
  /\ reset = FALSE
  /\ printed = << >>
  /\ query = << >>
  /\ result = None

AddWord ==
  /\ op = "idle"
  /\ \E w \in WordInputs :
    /\ Len(seed) + Len(inserted) < MaxWords
    /\ word_index' = add_word(word_index, strategy, w)
    /\ inserted' = Append(inserted, w)
    /\ before' = word_index
    /\ op' = "add_word"
    /\ word' = w
    /\ file' = << >> /\ path' = "missing" /\ raised' = ""
    /\ reset' = FALSE /\ printed' = << >>
    /\ query' = << >> /\ result' = None
    /\ UNCHANGED << strategy, seed >>

LoadWords ==
  /\ op = "idle"
  /\ \E in \in LoadInputs, r \in BOOLEAN :
    \E done \in { load_words(word_index, strategy, in[1], in[2], r) } :
    LET p == in[1]
        f == in[2]
    IN
      /\ Len(IF r THEN << >> ELSE seed \o inserted) + Len(done.added) <= MaxWords
      /\ word_index' = done.index
      /\ seed' = (IF r THEN << >> ELSE seed)
      /\ inserted' = (IF r THEN << >> ELSE inserted) \o done.added
      /\ before' = word_index
      /\ op' = "load_words"
      /\ file' = f /\ path' = p /\ raised' = done.raised /\ reset' = r
      /\ printed' = done.printed
      /\ word' = << >> /\ query' = << >> /\ result' = None
      /\ UNCHANGED strategy

Search ==
  /\ op = "idle"
  /\ \E q \in Queries :
    /\ result' = search(word_index, strategy, q)
    /\ query' = q
    /\ before' = word_index
    /\ op' = "search"
    /\ word' = << >>
    /\ file' = << >> /\ path' = "missing" /\ raised' = ""
    /\ reset' = FALSE /\ printed' = << >>
    /\ UNCHANGED << strategy, seed, word_index, inserted >>

\* the call has returned and its arguments and results are dropped, as when
\* the loop of main() goes round to read the next search term
Return ==
  /\ op # "idle"
  /\ op' = "idle"
  /\ before' = << >>
  /\ word' = << >>
  /\ file' = << >> /\ path' = "missing" /\ raised' = ""
  /\ reset' = FALSE /\ printed' = << >>
  /\ query' = << >> /\ result' = None
  /\ UNCHANGED << strategy, seed, word_index, inserted >>

Next == AddWord \/ LoadWords \/ Search \/ Return

Spec == Init /\ [][Next]_vars

\* ------------------------------------------------- vocabulary of the claims
Range(s) == { s[i] : i \in 1..Len(s) }

\* one of the 26 letters, in either case
IsAlpha(c) == InSeq(LETTERS, c) \/ InSeq(UPPERCASE, c)

\* how many times x occurs in the list s
Count(s, x) == Cardinality({ i \in 1..Len(s) : s[i] = x })

\* every word stored in the index, bucket by bucket
StoredWords(index) == UNION { Range(index[i].words) : i \in 1..Len(index) }

\* s and t hold the same letters the same number of times, whatever the case
SameLetters(s, t) ==
  /\ Len(s) = Len(t)
  /\ \A c \in Range(Lower(s)) \cup Range(Lower(t)) :
       Count(Lower(s), c) = Count(Lower(t), c)

\* ----------------------------------------------------------------------- C1
\* C1: every stored word sits in exactly one bucket, the one whose key is
\* Normalise(word) under the strategy of the index, and it is there as many
\* times as it was inserted and in no other bucket.
IndexInvariant ==
  seed = << >> =>
  /\ \A i, j \in 1..Len(word_index) :
       word_index[i].key = word_index[j].key => i = j
  /\ \A i \in 1..Len(word_index) :
       /\ word_index[i].words # << >>
       /\ \A w \in Range(word_index[i].words) :
            /\ Normalise(strategy, w) = word_index[i].key
            /\ Count(word_index[i].words, w) = Count(inserted, w)
            /\ \A j \in 1..Len(word_index) :
                 w \in Range(word_index[j].words) => j = i
  /\ Range(inserted) = StoredWords(word_index)

\* a word has just been inserted for the second time and is twice in its bucket
IndexInvariantWitness ==
  /\ seed = << >>
  /\ op \in { "add_word", "load_words" }
  /\ before # << >>
  /\ \E i \in 1..Len(word_index) :
       /\ Len(word_index[i].words) = 2
       /\ word_index[i].words[1] = word_index[i].words[2]

\* ----------------------------------------------------------------------- C2
\* a line that, once trimmed, is one non-empty token with no white space in it
\* and only the 26 letters, in either case
WellFormed(line) ==
  LET t == Strip(line) IN
    /\ t # << >>
    /\ \A i \in 1..Len(t) : t[i] \notin WHITESPACE /\ IsAlpha(t[i])

\* the positions of the lines of f that are (are not) well formed, in order
LinesWhere(f, good) ==
  LET Test(i) == WellFormed(f[i]) = good IN
    SelectSeq([i \in 1..Len(f) |-> i], Test)

RECURSIVE InsertAll(_, _, _, _)
InsertAll(index, strat, ws, i) ==
  IF i > Len(ws) THEN index
  ELSE InsertAll(add_word(index, strat, ws[i]), strat, ws, i + 1)

\* C2: load_words on a text file inserts exactly the well-formed lines,
\* trimmed, in file order, and prints exactly one diagnostic for each other
\* line, whatever lines come before or after.
LoadValidation ==
  (op = "load_words" /\ path = "file") =>
    LET lines == ReadLines(Text(file))
        good == LinesWhere(lines, TRUE)
        bad == LinesWhere(lines, FALSE)
        ws == [k \in 1..Len(good) |-> Strip(lines[good[k]])]
    IN  /\ word_index = InsertAll(IF reset THEN << >> ELSE before, strategy, ws, 1)
        /\ Len(printed) = Len(bad) + 1
        /\ \A k \in 1..Len(bad) :
             /\ printed[k].n = bad[k]
             /\ printed[k].msg \in { "Multiple words", "Blank line",
                                     "Found non letter character" }
        /\ printed[Len(printed)] = Message("Loaded", << >>, Len(good))

\* ----------------------------------------------------------------------- C3
\* w is a word the crossword search term q describes: as long as q, and with
\* q's letter, in either case, wherever q has a letter
CrosswordMatch(q, w) ==
  /\ Len(w) = Len(q)
  /\ \A i \in 1..Len(q) : IsAlpha(q[i]) => LowerChar(w[i]) = LowerChar(q[i])

\* C3: crossword search returns exactly the indexed original words the search
\* term describes, every one of them when two differ only in case.
CrosswordReturnsEveryMatch ==
  (seed = << >> /\ op = "search" /\ strategy = "crossword") =>
    /\ result.kind = "list"
    /\ Range(result.words) = { w \in Range(inserted) : CrosswordMatch(query, w) }

\* ----------------------------------------------------------------------- C4
\* C4: under the anagram strategy two inserted words share a bucket exactly
\* when they hold the same letters, and a search term holding the letters of
\* an indexed word returns all indexed words with those letters, in insertion
\* order.
AnagramBuckets ==
  (seed = << >> /\ strategy = "anagram") =>
    /\ \A w1, w2 \in Range(inserted) :
         (\E i \in 1..Len(word_index) :
            w1 \in Range(word_index[i].words) /\ w2 \in Range(word_index[i].words))
         <=> SameLetters(w1, w2)
    /\ (op = "search" /\ \E w \in Range(inserted) : SameLetters(query, w)) =>
         LET Same(w) == SameLetters(query, w) IN
           result = List(SelectSeq(inserted, Same))

\* an anagram search whose term is a rearrangement of the two distinct words
\* it returns
AnagramBucketsWitness ==
  /\ seed = << >>
  /\ strategy = "anagram" /\ op = "search"
  /\ Len(result.words) = 2
  /\ result.words[1] # result.words[2]
  /\ \A w \in Range(result.words) : SameLetters(query, w) /\ Lower(query) # Lower(w)

\* ----------------------------------------------------------------------- C5
\* w has q's letter, in either case, at every position where q has a letter
HasLettersOf(q, w) ==
  \A i \in 1..Len(q) :
    IsAlpha(q[i]) => (i <= Len(w) /\ LowerChar(w[i]) = LowerChar(q[i]))

\* w passes the literal check of the codeword search term q, whether the
\* positions are those of the search term as typed or as trimmed
PassesLiteralCheck(q, w) == HasLettersOf(q, w) \/ HasLettersOf(Strip(q), w)

\* C5: codeword search returns None when the code of the search term is no
\* key of the index, and an empty list when it is a key and no word of its
\* bucket passes the literal check.
CodewordNoneOrEmpty ==
  (seed = << >> /\ op = "search" /\ strategy = "codeword") =>
    LET norm == CodewordNormalise(query) IN
      /\ ~HasKey(word_index, norm) => result = None
      /\ (/\ HasKey(word_index, norm)
          /\ \A w \in Range(Bucket(word_index, norm)) : ~PassesLiteralCheck(query, w))
         => result = List(<< >>)

\* ----------------------------------------------------------------------- C6
\* w, in lower case, is as long as the crossword search term q in lower case
\* and has its letter wherever that has one of the 26 letters
CrosswordFits(q, w) ==
  /\ Len(Lower(w)) = Len(Lower(q))
  /\ \A i \in 1..Len(Lower(q)) :
       InLETTERS(Lower(q)[i]) => Lower(w)[i] = Lower(q)[i]

\* the search term q matches the indexed word w under strategy strat
QueryMatches(strat, q, w) ==
  IF strat = "crossword" THEN CrosswordFits(q, w)
  ELSE Normalise(strat, q) = Normalise(strat, w)

NoMatch == \A w \in Range(inserted) : ~QueryMatches(strategy, query, w)

\* C6 as claimed: plain, anagram and crossword searches with no match return
\* None, and only a codeword search with its code present returns an empty
\* list.
NoMatchIsNoneOutsideCodeword ==
  (seed = << >> /\ op = "search") =>
    /\ (strategy # "codeword" /\ NoMatch) => result = None
    /\ result = List(<< >>) =>
         (strategy = "codeword" /\ HasKey(word_index, CodewordNormalise(query)))

\* C6 as amended: on an index built from empty by add_word and load_words,
\* plain and anagram searches with no match return None and never an empty
\* list, crossword searches with no match return an empty list and never
\* None, and an empty list comes only from a crossword search with no match
\* or a codeword search with its code present.
NoMatchSignals ==
  (seed = << >> /\ op = "search") =>
    /\ (strategy \in { "plain", "anagram" } /\ NoMatch) => result = None
    /\ (strategy = "crossword" /\ NoMatch) => result = List(<< >>)
    /\ (strategy = "crossword") => result # None
    /\ result = List(<< >>) =>
         \/ strategy = "crossword" /\ NoMatch
         \/ strategy = "codeword" /\ HasKey(word_index, CodewordNormalise(query))

\* a crossword search of a non-empty index that matches nothing
NoMatchSignalsWitness ==
  /\ seed = << >>
  /\ op = "search" /\ strategy = "crossword"
  /\ word_index # << >>
  /\ query # << >>
  /\ NoMatch
  /\ result = List(<< >>)

\* ----------------------------------------------------------------------- C7
\* C7 as claimed: load_words on a path that does not exist leaves the index
\* as it was, whatever the reset flag.
MissingFileIsNoOp ==
  (op = "load_words" /\ path = "missing") =>
    /\ raised = ""
    /\ word_index = before

\* C7 as amended: load_words on a path that does not exist inserts nothing,
\* prints nothing and does not raise; it leaves the index as it was when
\* reset is false and leaves it empty when reset is true.
MissingFileResetsOnly ==
  (op = "load_words" /\ path = "missing") =>
    /\ raised = ""
    /\ word_index = (IF reset THEN << >> ELSE before)
    /\ StoredWords(word_index) \subseteq StoredWords(before)
    /\ printed = << >>

\* a missing file loaded with reset set into an index that held words
MissingFileResetsOnlyWitness ==
  /\ op = "load_words" /\ path = "missing"
  /\ reset
  /\ StoredWords(before) # { }
  /\ word_index = << >>

\* ----------------------------------------------------------------------- C8
\* the codeword search term as its code is taken from: trimmed, lower case
Symbols(q) == PlainNormalise(q)

\* w fits q when equal symbols of q stand on equal letters of w and q's
\* letters stand on themselves; different symbols are free to share a letter
FitsWithoutCrossConstraint(q, w) ==
  /\ Len(w) = Len(q)
  /\ \A i, j \in 1..Len(q) : q[i] = q[j] => LowerChar(w[i]) = LowerChar(w[j])
  /\ \A i \in 1..Len(q) : IsAlpha(q[i]) => LowerChar(w[i]) = << q[i] >>

\* C8 as claimed: a completed codeword search leaves out no indexed word that
\* fits the search term, so two different symbols may stand on one letter.
CodewordNoCrossConstraint ==
  (/\ seed = << >>
   /\ op = "search" /\ strategy = "codeword" /\ result.kind # "IndexError") =>
    \A w \in Range(inserted) :
      FitsWithoutCrossConstraint(Symbols(query), w) => w \in Range(result.words)

\* C8 as amended: on an index built from empty by add_word and load_words,
\* in every word a codeword search returns, two positions hold the same
\* letter exactly when the search term has the same symbol at them, so
\* different symbols stand on different letters.
CodewordSymbolClasses ==
  (/\ seed = << >>
   /\ op = "search" /\ strategy = "codeword" /\ result.kind = "list") =>
    \A w \in Range(result.words) :
      /\ Len(w) = Len(Symbols(query))
      /\ \A i, j \in 1..Len(w) :
           (Symbols(query)[i] = Symbols(query)[j])
           <=> (LowerChar(w[i]) = LowerChar(w[j]))

\* a search term with one non-letter symbol twice returns a word with one
\* letter twice
CodewordSymbolClassesWitness ==
  /\ seed = << >>
  /\ op = "search" /\ strategy = "codeword"
  /\ Len(query) = 2 /\ query[1] = query[2] /\ ~IsAlpha(query[1])
  /\ result.kind = "list" /\ result.words # << >>
  /\ \E w \in Range(inserted) :
       Len(w) = 2 /\ w[1] # w[2] /\ w \notin Range(result.words)

\* ----------------------------------------------------------------------- C9
\* C9: every word a codeword search returns has the search term's letter, in
\* either case, wherever the trimmed search term has a letter in either case.
CodewordLiteralCaseInsensitive ==
  (/\ seed = << >>
   /\ op = "search" /\ strategy = "codeword" /\ result.kind = "list") =>
    \A w \in Range(result.words) : HasLettersOf(Strip(query), w)

\* ---------------------------------------------------------------------- C10
\* C10: a search of an index built from empty by add_word and load_words
\* returns a list or None, it never raises.
SearchNeverRaises ==
  (seed = << >> /\ op = "search") => result.kind \in { "list", "None" }

====
